---- MODULE Spec2Model ----
(***************************************************************************)
(* The App component of psule-profile: the five-valued appState, the       *)
(* result mapping generatedImages, the bounded worker pool started by      *)
(* handleGenerateClick, the single-job path handleRegenerateStyle, and     *)
(* the handlers around them (upload, crop, reset, album download).         *)
(*                                                                         *)
(* One action is one browser task: an event handler run up to its first    *)
(* suspension, or the settlement of one external call together with the    *)
(* chain of continuations (microtasks) that the settlement wakes up.       *)
(***************************************************************************)
EXTENDS Integers, Sequences, FiniteSets, TLC

\* Bounds of the model.
NumStyles == 4
MaxUploads == 2
MaxRegenerations == 1

\* const concurrencyLimit = 3
concurrencyLimit == 3

\* null, the initial value of uploadedImage and croppedImageForDisplay.
\* Images are numbered from 1 in upload order.
Null == 0

\* STYLE_KEYS = Object.keys(STYLES): the style keys in insertion order.
STYLE_KEYS == [i \in 1..NumStyles |-> i]

Keys == {STYLE_KEYS[i] : i \in 1..Len(STYLE_KEYS)}

\* Mutant of Workers: one worker too many, Array(concurrencyLimit + 1).
WorkersOffByOne == 1..(concurrencyLimit + 1)

\* The workers of one dispatch: Array(concurrencyLimit).fill(null).map(...)
Workers == 1..concurrencyLimit

\* Values an external call can fail with: an Error carrying a message, or a
\* thrown value that is not an Error.
Failures ==
    {[isError |-> TRUE, message |-> "x"], [isError |-> FALSE, message |-> "raw"]}

\* How the work of one job ends: both calls resolve, or one of them fails
\* with a value of Failures.
Results == {[ok |-> TRUE]} \cup {[ok |-> FALSE, err |-> e] : e \in Failures}

VARIABLES
    uploadedImage,           \* useState<string | null>(null)
    croppedImageForDisplay,  \* useState<string | null>(null)
    generatedImages,         \* useState<Record<string, GeneratedImage>>({})
    isDownloading,           \* useState<boolean>(false)
    appState,                \* useState<'idle' | ... >('idle')
    uploads,                 \* number of files handed to a FileReader so far
    readers,                 \* FileReaders whose onloadend has not fired yet
    dispatches,              \* the calls of handleGenerateClick, in order
    regenerations,           \* the calls of handleRegenerateStyle that started work
    album                    \* imageData handed to createAlbumPage, not settled yet

vars == <<uploadedImage, croppedImageForDisplay, generatedImages, isDownloading,
          appState, uploads, readers, dispatches, regenerations, album>>

\* The empty record {} of generatedImages / imageData.
EmptyRecord == [k \in {} |-> Null]

----------------------------------------------------------------------------
(* Pure helpers *)

\* Mutant of Spread: the update forgets ...prev.
SpreadDropsPrev(prev, styleKey, entry) == [x \in {styleKey} |-> entry]

\* Mutant of Spread: an update for a key that is no longer in the mapping
\* (the mapping was emptied since the job started) is dropped.
SpreadIfKnown(prev, styleKey, entry) ==
    IF styleKey \in DOMAIN prev
    THEN [x \in DOMAIN prev |-> IF x = styleKey THEN entry ELSE prev[x]]
    ELSE prev

\* Mutant of Spread: the new entry is merged into the key's previous entry,
\* { ...prev, [styleKey]: { ...prev[styleKey], ...entry } }.
SpreadMergesEntry(prev, styleKey, entry) ==
    LET old == IF styleKey \in DOMAIN prev THEN prev[styleKey] ELSE entry
        merged == [f \in (DOMAIN old) \cup (DOMAIN entry) |->
                      IF f \in DOMAIN entry THEN entry[f] ELSE old[f]]
    IN [x \in (DOMAIN prev) \cup {styleKey} |->
           IF x = styleKey THEN merged ELSE prev[x]]

\* { ...prev, [styleKey]: entry }
Spread(prev, styleKey, entry) ==
    [x \in (DOMAIN prev) \cup {styleKey} |-> IF x = styleKey THEN entry ELSE prev[x]]

\* generateStyledImage(croppedImageForDisplay, prompt): the image the service
\* returns for one call, tagged with the call that asked for it.
generateStyledImage(image, styleKey, run) ==
    [src |-> image, style |-> styleKey, run |-> run, watermark |-> ""]

\* addWatermark(imageUrl): the same image with the text mark drawn on it.
addWatermark(imageUrl) == [imageUrl EXCEPT !.watermark = "psule.app"]

\* Mutant of errorMessage: the thrown value is shown as it is.
errorMessageRaw(err) == err.message

\* err instanceof Error ? err.message : "An unknown error occurred."
errorMessage(err) ==
    IF err.isError THEN err.message ELSE "An unknown error occurred."

Pending == [status |-> "pending"]
Done(url) == [status |-> "done", url |-> url]
Failed(err) == [status |-> "error", error |-> errorMessage(err)]

\* generatedImages[styleKey]?.status === 'pending'
IsPending(images, styleKey) ==
    styleKey \in DOMAIN images /\ images[styleKey].status = "pending"

\* initialImages: every key of STYLE_KEYS at { status: 'pending' }
initialImages == [k \in Keys |-> Pending]

----------------------------------------------------------------------------
Init ==
    /\ uploadedImage = Null
    /\ croppedImageForDisplay = Null
    /\ generatedImages = EmptyRecord
    /\ isDownloading = FALSE
    /\ appState = "idle"
    /\ uploads = 0
    /\ readers = {}
    /\ dispatches = <<>>
    /\ regenerations = <<>>
    /\ album = <<>>

----------------------------------------------------------------------------
(* Upload, crop, reset *)

\* handleImageUpload: the file input is rendered in the 'idle' view only. The
\* handler hands the file to a FileReader and returns; nothing changes until
\* the reader's onloadend fires.
handleImageUpload ==
    /\ appState = "idle"
    /\ uploads < MaxUploads
    /\ uploads' = uploads + 1
    /\ readers' = readers \cup {uploads + 1}
    /\ UNCHANGED <<uploadedImage, croppedImageForDisplay, generatedImages,
                   isDownloading, appState, dispatches, regenerations, album>>

\* reader.onloadend: fires after a successful read (result is the data URL)
\* and after a failed one (result is null), whatever appState is by then.
onloadend(image, result) ==
    /\ image \in readers
    /\ result \in {image, Null}
    /\ readers' = readers \ {image}
    /\ uploadedImage' = result
    /\ appState' = "cropping"
    /\ generatedImages' = EmptyRecord
    /\ croppedImageForDisplay' = Null
    /\ UNCHANGED <<isDownloading, uploads, dispatches, regenerations, album>>

\* The ImageCropper is rendered when appState === 'cropping' && uploadedImage.
CropperShown == appState = "cropping" /\ uploadedImage # Null

\* handleCropConfirm(croppedImageUrl): the crop of the image shown in the cropper.
handleCropConfirm ==
    /\ CropperShown
    /\ croppedImageForDisplay' = uploadedImage
    /\ appState' = "image-uploaded"
    /\ UNCHANGED <<uploadedImage, generatedImages, isDownloading, uploads, readers,
                   dispatches, regenerations, album>>

handleCropCancel ==
    /\ CropperShown
    /\ uploadedImage' = Null
    /\ appState' = "idle"
    /\ UNCHANGED <<croppedImageForDisplay, generatedImages, isDownloading, uploads,
                   readers, dispatches, regenerations, album>>

\* handleReset: "Different Photo" in the 'image-uploaded' view, "Start Over" in
\* the 'results-shown' view.
handleReset ==
    /\ \/ appState = "image-uploaded" /\ croppedImageForDisplay # Null
       \/ appState = "results-shown"
    /\ uploadedImage' = Null
    /\ croppedImageForDisplay' = Null
    /\ generatedImages' = EmptyRecord
    /\ appState' = "idle"
    /\ UNCHANGED <<isDownloading, uploads, readers, dispatches, regenerations, album>>

----------------------------------------------------------------------------
(* The dispatcher: handleGenerateClick *)

Min(S) == CHOOSE x \in S : \A y \in S : x <= y

\* Mutant of WorkerLoop: stylesQueue.pop(), the worker takes the last key.
WorkerLoopPop(disp, w) ==
    IF disp.stylesQueue # <<>>
    THEN LET styleKey == disp.stylesQueue[Len(disp.stylesQueue)] IN
         [disp EXCEPT !.stylesQueue = SubSeq(@, 1, Len(@) - 1),
                      !.workers[w] = [pc |-> "processStyle", key |-> styleKey],
                      !.started = Append(@, styleKey)]
    ELSE [disp EXCEPT !.workers[w] = [pc |-> "finished", key |-> Null]]

\* Mutant of WorkerLoop: the worker reads stylesQueue[0] and leaves it queued.
WorkerLoopNoShift(disp, w) ==
    IF disp.stylesQueue # <<>>
    THEN LET styleKey == Head(disp.stylesQueue) IN
         [disp EXCEPT !.workers[w] = [pc |-> "processStyle", key |-> styleKey],
                      !.started = Append(@, styleKey)]
    ELSE [disp EXCEPT !.workers[w] = [pc |-> "finished", key |-> Null]]

\* One worker's loop, run until it suspends or ends:
\*   while (stylesQueue.length > 0) {
\*       const styleKey = stylesQueue.shift();
\*       if (styleKey) await processStyle(styleKey);  }
\* processStyle runs synchronously up to its await of generateStyledImage, so
\* the key is claimed and its work started in one step.
WorkerLoop(disp, w) ==
    IF disp.stylesQueue # <<>>
    THEN LET styleKey == Head(disp.stylesQueue) IN
         [disp EXCEPT !.stylesQueue = Tail(@),
                      !.workers[w] = [pc |-> "processStyle", key |-> styleKey],
                      !.started = Append(@, styleKey)]
    ELSE [disp EXCEPT !.workers[w] = [pc |-> "finished", key |-> Null]]

\* Mutant of StartWorkers: only the first worker is run at the start.
StartFirstWorkerOnly(disp, todo) ==
    IF todo = {} THEN disp ELSE WorkerLoop(disp, Min(todo))

\* The map callback runs for each worker in turn, each up to its first await.
RECURSIVE StartWorkers(_, _)
StartWorkers(disp, todo) ==
    IF todo = {} THEN disp
    ELSE StartWorkers(WorkerLoop(disp, Min(todo)), todo \ {Min(todo)})

\* Mutant of AllWorkersDone: Promise.race(workers), the first worker to end.
AnyWorkerDone(disp) ==
    \E w \in DOMAIN disp.workers : disp.workers[w].pc = "finished"

\* await Promise.all(workers)
AllWorkersDone(disp) ==
    \A w \in DOMAIN disp.workers : disp.workers[w].pc = "finished"

\* A dispatch as handleGenerateClick leaves it at its await of Promise.all.
\* started, published and completed record what the dispatch has done: the
\* keys processStyle was called on, in call order; how many terminal updates
\* each key got; how many times the line after Promise.all has run.
DispatchOf(image, keys, pool) ==
    StartWorkers([img |-> image,
                  stylesQueue |-> keys,
                  workers |-> [w \in pool |-> [pc |-> "created", key |-> Null]],
                  started |-> <<>>,
                  published |-> [k \in Keys |-> 0],
                  completed |-> 0],
                 pool)

\* The dispatch of the program: stylesQueue = [...STYLE_KEYS], and
\* Array(concurrencyLimit) workers.
NewDispatch(image) == DispatchOf(image, STYLE_KEYS, Workers)

\* The "Generate Styles" button is rendered in the 'image-uploaded' view.
handleGenerateClick ==
    /\ appState = "image-uploaded"
    /\ croppedImageForDisplay # Null
    /\ appState' = "generating"
    /\ generatedImages' = initialImages
    /\ dispatches' = Append(dispatches, NewDispatch(croppedImageForDisplay))
    /\ UNCHANGED <<uploadedImage, croppedImageForDisplay, isDownloading, uploads,
                   readers, regenerations, album>>

\* Mutant of Outcome: the catch block leaves the entry at 'pending'.
OutcomeLeavesPending(image, styleKey, run, result) ==
    IF result.ok
    THEN Done(addWatermark(generateStyledImage(image, styleKey, run)))
    ELSE Pending

\* What the work of one job (generateStyledImage, then addWatermark) can end
\* in: the watermarked image, or the value either call failed with.
\* Between its two awaits the job touches no state, so the model has one step
\* for the job: the task in which it settles.
Outcome(image, styleKey, run, result) ==
    IF result.ok
    THEN Done(addWatermark(generateStyledImage(image, styleKey, run)))
    ELSE Failed(result.err)

\* setGeneratedImages(prev => ({ ...prev, [styleKey]: entry })) at the end of
\* processStyle, in its try or its catch block.
Publish(disp, styleKey) == [disp EXCEPT !.published[styleKey] = @ + 1]

\* The line after await Promise.all(workers): setAppState('results-shown').
Complete(disp) == [disp EXCEPT !.completed = @ + 1]

\* Mutant of Resume: processStyle without its try/catch, so a failure rejects
\* the worker's promise and the worker takes no further key.
ResumeOrAbort(disp, w, result) ==
    IF result.ok THEN WorkerLoop(disp, w)
    ELSE [disp EXCEPT !.workers[w] = [pc |-> "rejected", key |-> Null]]

\* await processStyle(styleKey) in the worker: processStyle catches whatever
\* its calls fail with, so the await returns normally for every result and
\* the worker goes round its loop again.
Resume(disp, w, result) == WorkerLoop(disp, w)

\* Mutant of AwaitsProcessStyle: the results are delivered in key order, a
\* job's settlement is held back while a worker is on an earlier key.
AwaitsInKeyOrder(disp, w) ==
    /\ w \in DOMAIN disp.workers
    /\ disp.workers[w].pc = "processStyle"
    /\ \A v \in DOMAIN disp.workers :
           disp.workers[v].pc = "processStyle" =>
               disp.workers[v].key >= disp.workers[w].key

\* Worker w is suspended at its await of processStyle(styleKey), and
\* processStyle at its awaits of the external calls: the job can settle at
\* any time, whatever the other workers are doing.
AwaitsProcessStyle(disp, w) ==
    /\ w \in DOMAIN disp.workers
    /\ disp.workers[w].pc = "processStyle"

\* The task in which processStyle of worker w of dispatch d settles: the
\* terminal status is published, the worker takes the next key or ends, and
\* when the last worker has ended the line after Promise.all runs.
processStyleSettles(d, w, result) ==
    /\ d \in DOMAIN dispatches
    /\ AwaitsProcessStyle(dispatches[d], w)
    /\ LET disp == dispatches[d]
           styleKey == disp.workers[w].key
           entry == Outcome(disp.img, styleKey, [by |-> "dispatch", n |-> d], result)
           next == Resume(Publish(disp, styleKey), w, result)
           all == AllWorkersDone(next)
       IN /\ generatedImages' = Spread(generatedImages, styleKey, entry)
          /\ dispatches' = [dispatches EXCEPT
                               ![d] = IF all THEN Complete(next) ELSE next]
          /\ appState' = IF all THEN "results-shown" ELSE appState
    /\ UNCHANGED <<uploadedImage, croppedImageForDisplay, isDownloading, uploads,
                   readers, regenerations, album>>

----------------------------------------------------------------------------
(* The single-job path: handleRegenerateStyle *)

\* The PolaroidCards, which carry onRegenerate, are rendered in the
\* 'generating' and 'results-shown' views.
CardsShown == appState \in {"generating", "results-shown"}

\* Mutant of RegenerateRefused: the check of the 'pending' status is missing.
RegenerateRefusedWithoutImageOnly(styleKey) == croppedImageForDisplay = Null

\* The call returns before it starts any work when there is no cropped image
\* or the key's entry is pending.
RegenerateRefused(styleKey) ==
    \/ croppedImageForDisplay = Null
    \/ IsPending(generatedImages, styleKey)

handleRegenerateStyle(styleKey) ==
    /\ CardsShown
    /\ styleKey \in Keys
    /\ IF RegenerateRefused(styleKey)
       THEN UNCHANGED <<generatedImages, regenerations>>
       ELSE /\ Len(regenerations) < MaxRegenerations
            /\ generatedImages' = Spread(generatedImages, styleKey, Pending)
            /\ regenerations' = Append(regenerations,
                   [key |-> styleKey, img |-> croppedImageForDisplay,
                    pc |-> "running"])
    /\ UNCHANGED <<uploadedImage, croppedImageForDisplay, isDownloading, appState,
                   uploads, readers, dispatches, album>>

\* A call of handleRegenerateStyle that has returned.
Settled == [key |-> Null, img |-> Null, pc |-> "settled"]

\* The task in which the work started by handleRegenerateStyle settles.
regenerateSettles(r, result) ==
    /\ r \in DOMAIN regenerations
    /\ regenerations[r].pc = "running"
    /\ LET job == regenerations[r]
           entry == Outcome(job.img, job.key, [by |-> "regenerate", n |-> r], result)
       IN generatedImages' = Spread(generatedImages, job.key, entry)
    /\ regenerations' = [regenerations EXCEPT ![r] = Settled]
    /\ UNCHANGED <<uploadedImage, croppedImageForDisplay, isDownloading, appState,
                   uploads, readers, dispatches, album>>

----------------------------------------------------------------------------
(* Album download *)

\* Object.entries(generatedImages).filter(done && url).reduce(...): the done
\* images, one per style name.
imageData ==
    LET done == {k \in DOMAIN generatedImages : generatedImages[k].status = "done"}
    IN [k \in done |-> generatedImages[k].url]

\* Mutant of AlbumRefused: the handler refuses an empty album only.
AlbumRefusedWhenEmpty == Cardinality(DOMAIN imageData) = 0

\* Object.keys(imageData).length < STYLE_KEYS.length
AlbumRefused == Cardinality(DOMAIN imageData) < Len(STYLE_KEYS)

\* The "Download Album" button is rendered in the 'results-shown' view and is
\* disabled while isDownloading. On refusal the handler alerts and its finally
\* block clears isDownloading in the same task.
handleDownloadAlbum ==
    /\ appState = "results-shown"
    /\ ~isDownloading
    /\ IF AlbumRefused
       THEN UNCHANGED <<isDownloading, album>>
       ELSE /\ isDownloading' = TRUE
            /\ album' = <<imageData>>
    /\ UNCHANGED <<uploadedImage, croppedImageForDisplay, generatedImages, appState,
                   uploads, readers, dispatches, regenerations>>

\* Mutant of AlbumSettles: setIsDownloading(false) at the end of the try
\* block instead of in a finally block, so a failed composition skips it.
AlbumSettlesWithoutFinally(ok) ==
    /\ album # <<>>
    /\ album' = <<>>
    /\ isDownloading' = ~ok
    /\ UNCHANGED <<uploadedImage, croppedImageForDisplay, generatedImages, appState,
                   uploads, readers, dispatches, regenerations>>

\* createAlbumPage settles (the download link is clicked, or the catch block
\* alerts); the finally block clears isDownloading.
AlbumSettles(ok) ==
    /\ album # <<>>
    /\ album' = <<>>
    /\ isDownloading' = FALSE
    /\ UNCHANGED <<uploadedImage, croppedImageForDisplay, generatedImages, appState,
                   uploads, readers, dispatches, regenerations>>

----------------------------------------------------------------------------
Next ==
    \/ handleImageUpload
    \/ \E image \in 1..MaxUploads, ok \in BOOLEAN :
           onloadend(image, IF ok THEN image ELSE Null)
    \/ handleCropConfirm
    \/ handleCropCancel
    \/ handleReset
    \/ handleGenerateClick
    \/ \E d \in DOMAIN dispatches, w \in Workers, result \in Results :
           processStyleSettles(d, w, result)
    \/ \E styleKey \in Keys : handleRegenerateStyle(styleKey)
    \/ \E r \in DOMAIN regenerations, result \in Results :
           regenerateSettles(r, result)
    \/ handleDownloadAlbum
    \/ \E ok \in BOOLEAN : AlbumSettles(ok)

Spec == Init /\ [][Next]_vars

\* Every external call settles in the end (generateStyledImage, addWatermark,
\* createAlbumPage), and the event loop then runs the task that was waiting
\* for it. Nothing is assumed of the user or of the file readers.
Fairness ==
    /\ \A d \in 1..MaxUploads, w \in Workers :
           WF_vars(\E result \in Results : processStyleSettles(d, w, result))
    /\ \A r \in 1..MaxRegenerations :
           WF_vars(\E result \in Results : regenerateSettles(r, result))
    /\ WF_vars(\E ok \in BOOLEAN : AlbumSettles(ok))

FairSpec == Spec /\ Fairness

\* The sessions in which the user lets each file finish loading before
\* choosing another: at most one FileReader is reading at a time, so
\* onloadend fires in the 'idle' view only.
SequentialNext == Next /\ Cardinality(readers') <= 1

SequentialSpec == Init /\ [][SequentialNext]_vars

\* The dispatcher on its own: the sessions in which the user starts no re-run
\* and no album download. Uploads, crops, resets and dispatches are free, so
\* dispatches overlap and outlive the view that started them.
DispatchNext == Next /\ UNCHANGED <<regenerations, album>>

DispatchFairSpec == Init /\ [][DispatchNext]_vars /\ Fairness

\* The dispatcher of handleGenerateClick taken as the pattern it is, for every
\* number of styles from 1 to NumStyles and every number of workers from 1 to
\* concurrencyLimit: the state handleGenerateClick leaves at its await of
\* Promise.all when STYLES has the first n styles and the pool has c workers.
PoolInit ==
    \E n \in 1..NumStyles, c \in 1..concurrencyLimit :
        /\ uploadedImage = 1
        /\ croppedImageForDisplay = 1
        /\ generatedImages = [k \in 1..n |-> Pending]
        /\ isDownloading = FALSE
        /\ appState = "generating"
        /\ uploads = 1
        /\ readers = {}
        /\ dispatches = <<DispatchOf(1, SubSeq(STYLE_KEYS, 1, n), 1..c)>>
        /\ regenerations = <<>>
        /\ album = <<>>

\* The jobs of that dispatch settle, in any order and with any result.
PoolNext ==
    \E d \in DOMAIN dispatches, w \in Workers, result \in Results :
        processStyleSettles(d, w, result)

PoolSpec == PoolInit /\ [][PoolNext]_vars

----------------------------------------------------------------------------
(* Measures used by the properties *)

Count(seq, x) == Cardinality({i \in 1..Len(seq) : seq[i] = x})

RECURSIVE Sum(_, _)
Sum(f, S) == IF S = {} THEN 0
             ELSE LET x == CHOOSE y \in S : TRUE IN f[x] + Sum(f, S \ {x})

\* Work functions a dispatch has started and that have not settled yet.
Unsettled(disp) == Len(disp.started) - Sum(disp.published, Keys)

\* The workers of a dispatch that hold key k.
Holders(disp, k) ==
    {w \in DOMAIN disp.workers :
        disp.workers[w].pc = "processStyle" /\ disp.workers[w].key = k}

IsTerminal(entry) == entry.status \in {"done", "error"}

----------------------------------------------------------------------------
(* C1 *)

\* C1: in every dispatch each key of STYLE_KEYS is either still in the queue
\* or was claimed once: processStyle is never started twice on a key, no two
\* workers hold the same key, no key leaves the queue without being started,
\* and when the dispatch has completed every key was started exactly once.
C1_EveryKeyOnce ==
    \A d \in DOMAIN dispatches :
        LET disp == dispatches[d] IN
        /\ \A k \in Keys :
              /\ Count(disp.started, k) + Count(disp.stylesQueue, k) = 1
              /\ Cardinality(Holders(disp, k)) <= 1
              /\ Cardinality(Holders(disp, k)) + disp.published[k]
                    = Count(disp.started, k)
        /\ disp.completed > 0 => \A k \in Keys : Count(disp.started, k) = 1

\* A dispatch whose queue has been drained by its workers, one of them on its
\* second key.
C1_Witness ==
    \E d \in DOMAIN dispatches :
        /\ dispatches[d].stylesQueue = <<>>
        /\ Len(dispatches[d].started) = Len(STYLE_KEYS)
        /\ \E k \in Keys : Holders(dispatches[d], k) # {}

----------------------------------------------------------------------------
(* C2 *)

\* C2: at every instant, in every dispatch, the work functions started and
\* not yet settled number at most concurrencyLimit.
C2_AtMostLimitInFlight ==
    \A d \in DOMAIN dispatches : Unsettled(dispatches[d]) <= concurrencyLimit

\* The limit is reached while keys are still queued.
C2_Witness ==
    \E d \in DOMAIN dispatches :
        /\ Unsettled(dispatches[d]) = concurrencyLimit
        /\ dispatches[d].stylesQueue # <<>>

----------------------------------------------------------------------------
(* C3 *)

\* C3: when the line after Promise.all has run for a dispatch, every key's
\* job of that dispatch has settled and published its terminal status: no
\* key is queued, no worker holds a key, every key was published.
C3_CompletionAfterAllSettled ==
    \A d \in DOMAIN dispatches :
        dispatches[d].completed > 0 =>
            /\ dispatches[d].stylesQueue = <<>>
            /\ \A w \in Workers : dispatches[d].workers[w].pc = "finished"
            /\ \A k \in Keys : dispatches[d].published[k] >= 1

\* A dispatch has completed and the view shows the results.
C3_Witness ==
    \E d \in DOMAIN dispatches :
        dispatches[d].completed = 1 /\ appState = "results-shown"

----------------------------------------------------------------------------
(* C4 *)

\* The step in which the line after Promise.all runs for dispatch d.
Completes(d) ==
    /\ d \in DOMAIN dispatches
    /\ dispatches'[d].completed > dispatches[d].completed

\* Some run other than dispatch d has key k queued or in flight: a re-run, or
\* another dispatch.
OtherRunHolds(d, k, disps, regens) ==
    \/ \E r \in DOMAIN regens : regens[r].pc = "running" /\ regens[r].key = k
    \/ \E e \in (DOMAIN disps) \ {d} :
           Count(disps[e].stylesQueue, k) > 0 \/ Holders(disps[e], k) # {}

\* C4 as claimed: at the instant the completion signal of a dispatch fires,
\* no key of the result mapping is 'pending'.
C4_NoPendingAtCompletion ==
    [][\A d \in DOMAIN dispatches :
          Completes(d) =>
              \A k \in DOMAIN generatedImages' :
                  generatedImages'[k].status # "pending"]_vars

\* C4 as amended: at the instant the completion signal of a dispatch fires,
\* every key has been published by that dispatch, and a key that is 'pending'
\* in the result mapping is pending on account of another run (a re-run of
\* that key still in flight, or another dispatch that has the key queued or
\* in flight), never on account of the dispatch that completes.
C4_PendingOnlyFromOtherRuns ==
    [][\A d \in DOMAIN dispatches :
          Completes(d) =>
              /\ \A k \in Keys : dispatches'[d].published[k] >= 1
              /\ \A k \in DOMAIN generatedImages' :
                    generatedImages'[k].status = "pending" =>
                        OtherRunHolds(d, k, dispatches', regenerations')]_vars

\* The results are shown for a completed dispatch while a key re-run by the
\* user is still pending.
C4_Witness ==
    /\ appState = "results-shown"
    /\ \E d \in DOMAIN dispatches : dispatches[d].completed = 1
    /\ \E r \in DOMAIN regenerations :
           /\ regenerations[r].pc = "running"
           /\ IsPending(generatedImages, regenerations[r].key)

----------------------------------------------------------------------------
(* C5 *)

\* Every job of the dispatch has settled: nothing queued, nothing in flight.
AllSettled(disp) ==
    disp.stylesQueue = <<>> /\ \A k \in Keys : Holders(disp, k) = {}

\* The step in which dispatch d publishes the status of key k.
Publishes(d, k) ==
    /\ d \in DOMAIN dispatches
    /\ dispatches'[d].published[k] > dispatches[d].published[k]

\* C5: if every external call settles in the end then, whichever jobs fail,
\* every dispatch reaches the point where each of its keys was published
\* once and its completion signal has fired once; what a dispatch publishes
\* for a key is a terminal status; the signal never fires twice, and it has
\* fired as soon as all the jobs of the dispatch have settled.
C5_EveryDispatchCompletesOnce ==
    /\ \A d \in 1..MaxUploads :
          (d \in DOMAIN dispatches) ~>
              (/\ d \in DOMAIN dispatches
               /\ dispatches[d].completed = 1
               /\ \A k \in Keys : dispatches[d].published[k] = 1)
    /\ [](\A d \in DOMAIN dispatches :
             /\ dispatches[d].completed <= 1
             /\ AllSettled(dispatches[d]) => dispatches[d].completed = 1)
    /\ [][\A d \in DOMAIN dispatches, k \in Keys :
             Publishes(d, k) =>
                 k \in DOMAIN generatedImages' /\ IsTerminal(generatedImages'[k])]_vars

\* A dispatch has completed with failed keys and successful keys side by
\* side in the result mapping.
C5_Witness ==
    \E d \in DOMAIN dispatches :
        /\ dispatches[d].completed = 1
        /\ DOMAIN generatedImages = Keys
        /\ \E k \in Keys : generatedImages[k].status = "error"
        /\ \E k \in Keys :
              /\ generatedImages[k].status = "done"
              /\ generatedImages[k].url.run = [by |-> "dispatch", n |-> d]

----------------------------------------------------------------------------
(* C6 *)

\* What worker w of dispatch disp does once its await of processStyle returns.
NextOf(disp) ==
    IF disp.stylesQueue # <<>>
    THEN [pc |-> "processStyle", key |-> Head(disp.stylesQueue)]
    ELSE [pc |-> "finished", key |-> Null]

\* C6: in the step in which a dispatch publishes 'error' for key K, the
\* result mapping changes in K's entry alone, which becomes error with the
\* reason of a failure; the worker that ran K takes the next queued key (or
\* ends on an empty queue); every other worker, every other dispatch and
\* every re-run stays as it was.
C6_FailureIsolated ==
    [][\A d \in DOMAIN dispatches, k \in Keys :
          (Publishes(d, k) /\ k \in DOMAIN generatedImages'
                           /\ generatedImages'[k].status = "error") =>
              /\ \E err \in Failures :
                    generatedImages' =
                        [x \in (DOMAIN generatedImages) \cup {k} |->
                            IF x = k
                            THEN [status |-> "error", error |-> errorMessage(err)]
                            ELSE generatedImages[x]]
              /\ \A w \in Workers :
                    dispatches'[d].workers[w] =
                        IF w \in Holders(dispatches[d], k)
                        THEN NextOf(dispatches[d])
                        ELSE dispatches[d].workers[w]
              /\ \A e \in (DOMAIN dispatches) \ {d} : dispatches'[e] = dispatches[e]
              /\ regenerations' = regenerations]_vars

\* One job of a dispatch has settled, it failed, and the worker that ran it
\* holds the key that was queued behind the first concurrencyLimit keys,
\* while the other workers are still on their first keys.
C6_Witness ==
    \E d \in DOMAIN dispatches, k \in Keys :
        /\ dispatches[d].published = [x \in Keys |-> IF x = k THEN 1 ELSE 0]
        /\ IsPending(generatedImages, STYLE_KEYS[concurrencyLimit + 1])
        /\ k \in DOMAIN generatedImages
        /\ generatedImages[k].status = "error"
        /\ Holders(dispatches[d], STYLE_KEYS[concurrencyLimit + 1]) # {}

----------------------------------------------------------------------------
(* C7 *)

\* C7: wherever the cards are shown, a call of handleRegenerateStyle on a key
\* whose entry is 'pending' is refused, and a step of handleRegenerateStyle
\* taken on such a key changes nothing: not the key's entry, not the rest of
\* the mapping, and no work is started.
C7_RerunOfPendingIsNoOp ==
    /\ [](\A k \in Keys :
             (CardsShown /\ IsPending(generatedImages, k)) => RegenerateRefused(k))
    /\ [][\A k \in Keys :
             (IsPending(generatedImages, k) /\ handleRegenerateStyle(k)) =>
                 UNCHANGED vars]_vars

\* A re-run is in flight, its key is pending and its card is shown with the
\* cropped image still stored: a second click on it is a call on a pending key.
C7_Witness ==
    /\ CardsShown
    /\ croppedImageForDisplay # Null
    /\ \E r \in DOMAIN regenerations :
           /\ regenerations[r].pc = "running"
           /\ IsPending(generatedImages, regenerations[r].key)

----------------------------------------------------------------------------
(* C8 *)

\* The step in which the work of re-run r settles.
RerunSettles(r) ==
    /\ r \in DOMAIN regenerations
    /\ regenerations[r].pc = "running"
    /\ regenerations'[r].pc = "settled"

\* C8 as claimed: wherever the cards are shown, a call of
\* handleRegenerateStyle on a key whose entry is terminal is carried out; it
\* sets that entry to 'pending' and leaves the other entries alone; and when
\* the work of the re-run settles, the key's entry becomes the terminal
\* status of that run (done with its result, or error with its reason),
\* again with the other entries left alone.
C8_RerunOfTerminalKey ==
    /\ [](\A k \in Keys :
             (CardsShown /\ k \in DOMAIN generatedImages
                         /\ IsTerminal(generatedImages[k])) =>
                 ~RegenerateRefused(k))
    /\ [][\A k \in Keys :
             (k \in DOMAIN generatedImages /\ IsTerminal(generatedImages[k])
                  /\ handleRegenerateStyle(k) /\ regenerations' # regenerations) =>
                 generatedImages' =
                     [x \in DOMAIN generatedImages |->
                         IF x = k THEN [status |-> "pending"] ELSE generatedImages[x]]]_vars
    /\ [][\A r \in DOMAIN regenerations :
             RerunSettles(r) =>
                 LET k == regenerations[r].key IN
                 /\ k \in DOMAIN generatedImages'
                 /\ IsTerminal(generatedImages'[k])
                 /\ generatedImages'[k].status = "done" =>
                        /\ generatedImages'[k].url.run = [by |-> "regenerate", n |-> r]
                        /\ generatedImages'[k].url.src = regenerations[r].img
                 /\ generatedImages'[k].status = "error" =>
                        \E err \in Failures :
                            generatedImages'[k].error = errorMessage(err)
                 /\ \A x \in (DOMAIN generatedImages') \ {k} :
                        x \in DOMAIN generatedImages
                            /\ generatedImages'[x] = generatedImages[x]]_vars

----------------------------------------------------------------------------
(* C9 *)

\* C9 as claimed: an entry that is terminal never changes to another terminal
\* entry in one step: not from done to error, not from error to done, not
\* from done to a different result. A terminal entry changes only by being
\* set to 'pending' (re-run, new dispatch) or by the mapping being emptied.
C9_TerminalOnlyViaPending ==
    [][\A k \in (DOMAIN generatedImages) \cap (DOMAIN generatedImages') :
          (IsTerminal(generatedImages[k]) /\ IsTerminal(generatedImages'[k])) =>
              generatedImages'[k] = generatedImages[k]]_vars

----------------------------------------------------------------------------
(* C10 *)

\* The work functions in flight for key k: the workers of every dispatch that
\* hold k, and the re-runs of k that have not settled.
InFlightFor(k) ==
    Sum([d \in DOMAIN dispatches |-> Cardinality(Holders(dispatches[d], k))],
        DOMAIN dispatches)
      + Cardinality({r \in DOMAIN regenerations :
                        regenerations[r].pc = "running" /\ regenerations[r].key = k})

\* C10 as claimed: at no time are two work functions for the same key in
\* flight together.
C10_OneWorkFunctionPerKey == \A k \in Keys : InFlightFor(k) <= 1

----------------------------------------------------------------------------
(* C11 *)

\* C11 as claimed: handleGenerateClick sets the result mapping to every key
\* of STYLE_KEYS at 'pending' in the step in which its workers claim their
\* first keys (no key is claimed before), and in every state in which
\* appState is 'generating' or 'results-shown' the mapping has an entry for
\* every key of STYLE_KEYS.
C11_MappingCoversEveryKey ==
    /\ [][handleGenerateClick =>
             generatedImages' = [k \in Keys |-> [status |-> "pending"]]]_vars
    /\ [](appState \in {"generating", "results-shown"} =>
             DOMAIN generatedImages = Keys)

----------------------------------------------------------------------------
(* C12 *)

\* C12: a job that is in flight can settle and publish at any time, whatever
\* the other jobs of its dispatch are doing and whichever way it ends; and
\* the step in which it settles puts the terminal status of its key into the
\* result mapping at once, while the workers on other keys stay in flight,
\* untouched.
C12_PublishedWhenSettled ==
    /\ [](\A d \in DOMAIN dispatches, w \in Workers :
             dispatches[d].workers[w].pc = "processStyle" =>
                 \A result \in Results : ENABLED processStyleSettles(d, w, result))
    /\ [][\A d \in DOMAIN dispatches, k \in Keys :
             Publishes(d, k) =>
                 /\ k \in DOMAIN generatedImages'
                 /\ IsTerminal(generatedImages'[k])
                 /\ \A w \in Workers \ Holders(dispatches[d], k) :
                        dispatches'[d].workers[w] = dispatches[d].workers[w]]_vars

\* Before the completion signal, a later key is terminal in the mapping
\* while the first key of the list is still pending, its job in flight.
C12_Witness ==
    /\ appState = "generating"
    /\ \E d \in DOMAIN dispatches :
          /\ dispatches[d].completed = 0
          /\ Holders(dispatches[d], STYLE_KEYS[1]) # {}
          /\ IsPending(generatedImages, STYLE_KEYS[1])
          /\ \E k \in Keys \ {STYLE_KEYS[1]} :
                /\ dispatches[d].published[k] = 1
                /\ k \in DOMAIN generatedImages
                /\ IsTerminal(generatedImages[k])

----------------------------------------------------------------------------
(* C13 *)

\* The number of keys a dispatch was given, and the size of its pool.
NumKeys(disp) == Len(disp.started) + Len(disp.stylesQueue)
PoolSize(disp) == Cardinality(DOMAIN disp.workers)

\* C13: for every number of keys and every pool size, the work functions a
\* dispatch has started are those of the first keys of the input list, in
\* list order, and the queue holds the rest, whichever jobs have settled;
\* with a pool of one worker at most one work function is in flight, and a
\* key's work function starts in a step in which every key started before
\* it has settled and been published.
C13_StartedInQueueOrder ==
    /\ [](\A d \in DOMAIN dispatches :
             LET disp == dispatches[d] IN
             /\ disp.started \o disp.stylesQueue
                    = SubSeq(STYLE_KEYS, 1, NumKeys(disp))
             /\ PoolSize(disp) = 1 => Unsettled(disp) <= 1)
    /\ [][\A d \in DOMAIN dispatches :
             (/\ PoolSize(dispatches[d]) = 1
              /\ Len(dispatches'[d].started) > Len(dispatches[d].started)) =>
                 /\ Len(dispatches'[d].started) = Len(dispatches[d].started) + 1
                 /\ \A i \in 1..Len(dispatches[d].started) :
                        dispatches'[d].published[dispatches[d].started[i]] = 1]_vars

\* One worker, three keys: the first key has settled, the second is in
\* flight, the third is still queued.
C13_Witness ==
    \E d \in DOMAIN dispatches :
        LET disp == dispatches[d] IN
        /\ PoolSize(disp) = 1
        /\ NumKeys(disp) = 3
        /\ disp.started = <<STYLE_KEYS[1], STYLE_KEYS[2]>>
        /\ disp.published[STYLE_KEYS[1]] = 1
        /\ Holders(disp, STYLE_KEYS[2]) # {}
        /\ disp.stylesQueue = <<STYLE_KEYS[3]>>

----------------------------------------------------------------------------
(* C14 *)

\* Every key of STYLE_KEYS is 'done' in the result mapping.
AllDone(images) ==
    \A k \in Keys : k \in DOMAIN images /\ images[k].status = "done"

\* C14: createAlbumPage is called only in a step taken with every key of
\* STYLE_KEYS 'done', and it is handed the result of every key; a call of
\* handleDownloadAlbum made while some key is missing, pending or error
\* changes nothing and composes nothing; no album in composition is partial.
C14_AlbumOnlyWhenAllDone ==
    /\ [][(album' # album /\ album' # <<>>) =>
             /\ AllDone(generatedImages)
             /\ album' = <<[k \in Keys |-> generatedImages[k].url]>>]_vars
    /\ [][(handleDownloadAlbum /\ ~AllDone(generatedImages)) =>
             UNCHANGED vars]_vars
    /\ [](album # <<>> => DOMAIN album[1] = Keys)

\* An album of all the styles is being composed.
C14_Witness ==
    /\ album # <<>>
    /\ isDownloading
    /\ DOMAIN album[1] = Keys
    /\ appState = "results-shown"

----------------------------------------------------------------------------
(* C15 *)

\* The entry the claim gives to a key whose work function failed with err.
ErrorEntryFor(err) ==
    [status |-> "error",
     error |-> IF err.isError THEN err.message ELSE "An unknown error occurred."]

\* C15: on the dispatch path and on the re-run path alike, when the work
\* function of a key fails with an Error the key's entry becomes 'error'
\* with that Error's message, and when it fails with a value that is not an
\* Error the entry becomes 'error' with "An unknown error occurred."; the
\* raw value never reaches the mapping.
C15_FailureReason ==
    /\ [][\A d \in DOMAIN dispatches, w \in Workers, err \in Failures :
             processStyleSettles(d, w, [ok |-> FALSE, err |-> err]) =>
                 LET k == dispatches[d].workers[w].key IN
                 k \in DOMAIN generatedImages'
                     /\ generatedImages'[k] = ErrorEntryFor(err)]_vars
    /\ [][\A r \in DOMAIN regenerations, err \in Failures :
             regenerateSettles(r, [ok |-> FALSE, err |-> err]) =>
                 LET k == regenerations[r].key IN
                 k \in DOMAIN generatedImages'
                     /\ generatedImages'[k] = ErrorEntryFor(err)]_vars
    /\ [](\A k \in DOMAIN generatedImages :
             generatedImages[k].status = "error" =>
                 generatedImages[k].error \in {"x", "An unknown error occurred."})

\* The mapping shows the generic reason for a key of a dispatch and the
\* message of an Error for a key that was re-run.
C15_Witness ==
    /\ \E k \in DOMAIN generatedImages :
           generatedImages[k] =
               [status |-> "error", error |-> "An unknown error occurred."]
    /\ \E k \in DOMAIN generatedImages :
           generatedImages[k] = [status |-> "error", error |-> "x"]
    /\ \E r \in DOMAIN regenerations : regenerations[r].pc = "settled"

----------------------------------------------------------------------------
(* C16 *)

\* The watermarked images a run can produce, and the reasons of the failures.
ResultImages ==
    {addWatermark(generateStyledImage(image, k, [by |-> by, n |-> n])) :
        image \in 1..MaxUploads, k \in Keys, by \in {"dispatch", "regenerate"},
        n \in 1..(MaxUploads + MaxRegenerations)}
Reasons == {errorMessage(err) : err \in Failures}

\* C16: in every reachable state every entry of the result mapping has one
\* of three shapes: status 'pending' and no other field; status 'done', a
\* url holding a result, and no error field; status 'error', an error field
\* holding a reason, and no url field.
C16_EntriesWellFormed ==
    \A k \in DOMAIN generatedImages :
        LET entry == generatedImages[k] IN
        \/ entry.status = "pending" /\ DOMAIN entry = {"status"}
        \/ /\ entry.status = "done"
           /\ DOMAIN entry = {"status", "url"}
           /\ entry.url \in ResultImages
        \/ /\ entry.status = "error"
           /\ DOMAIN entry = {"status", "error"}
           /\ entry.error \in Reasons

\* The mapping holds the three shapes side by side, the 'pending' one put
\* over a terminal entry by a re-run.
C16_Witness ==
    /\ \E k \in DOMAIN generatedImages : generatedImages[k].status = "done"
    /\ \E k \in DOMAIN generatedImages : generatedImages[k].status = "error"
    /\ \E r \in DOMAIN regenerations :
           /\ regenerations[r].pc = "running"
           /\ IsPending(generatedImages, regenerations[r].key)

----------------------------------------------------------------------------
(* C17 *)

\* C17: when the pool has at least as many workers as the dispatch has keys,
\* the queue is empty from the start: every key's work function was started
\* by handleGenerateClick itself, the w-th worker on the w-th key, before
\* any job settled; the workers beyond the number of keys have ended without
\* a key; and no worker takes a second key.
C17_FullParallelism ==
    /\ [](\A d \in DOMAIN dispatches :
             LET disp == dispatches[d] IN
             PoolSize(disp) >= NumKeys(disp) =>
                 /\ disp.stylesQueue = <<>>
                 /\ disp.started = SubSeq(STYLE_KEYS, 1, NumKeys(disp))
                 /\ Sum(disp.published, Keys) = 0 =>
                        Unsettled(disp) = NumKeys(disp)
                 /\ \A w \in DOMAIN disp.workers :
                        IF w > NumKeys(disp)
                        THEN disp.workers[w] = [pc |-> "finished", key |-> Null]
                        ELSE disp.workers[w] \in
                                 {[pc |-> "processStyle", key |-> STYLE_KEYS[w]],
                                  [pc |-> "finished", key |-> Null]})
    /\ [][\A d \in DOMAIN dispatches :
             PoolSize(dispatches[d]) >= NumKeys(dispatches[d]) =>
                 dispatches'[d].started = dispatches[d].started]_vars

\* Two keys and three workers: both work functions were started, the third
\* worker has ended without a key, and the first worker, its job settled,
\* has ended too while the second key is still in flight.
C17_Witness ==
    \E d \in DOMAIN dispatches :
        LET disp == dispatches[d] IN
        /\ PoolSize(disp) = concurrencyLimit
        /\ NumKeys(disp) = 2
        /\ disp.started = <<STYLE_KEYS[1], STYLE_KEYS[2]>>
        /\ disp.published[STYLE_KEYS[1]] = 1
        /\ disp.workers[1].pc = "finished"
        /\ Holders(disp, STYLE_KEYS[2]) = {2}
        /\ disp.workers[concurrencyLimit].pc = "finished"

----------------------------------------------------------------------------
(* C18 *)

\* The entry is the terminal status of a run of styleKey on image: done with
\* the result of that run on that image, or error with a reason.
IsOutcomeOf(entry, image, styleKey, run) ==
    \/ /\ entry.status = "done"
       /\ entry.url.src = image
       /\ entry.url.style = styleKey
       /\ entry.url.run = run
    \/ entry.status = "error"

\* C18: a step of handleReset or of a file reader's onloadend leaves every
\* work function that is in flight as it was, started by a worker or by a
\* re-run; a re-run in flight can settle in every state; and whenever a job
\* settles, whatever happened since it started, its key's entry in the
\* result mapping becomes the terminal status of that job, computed from the
\* image the job was started with.
C18_NoCancellation ==
    /\ [][(handleReset
              \/ \E image \in 1..MaxUploads, result \in 0..MaxUploads :
                     onloadend(image, result)) =>
             UNCHANGED <<dispatches, regenerations>>]_vars
    /\ [](\A r \in DOMAIN regenerations :
             regenerations[r].pc = "running" =>
                 \A result \in Results : ENABLED regenerateSettles(r, result))
    /\ [][\A d \in DOMAIN dispatches, k \in Keys :
             Publishes(d, k) =>
                 /\ k \in DOMAIN generatedImages'
                 /\ IsOutcomeOf(generatedImages'[k], dispatches[d].img, k,
                                [by |-> "dispatch", n |-> d])]_vars
    /\ [][\A r \in DOMAIN regenerations :
             RerunSettles(r) =>
                 /\ regenerations[r].key \in DOMAIN generatedImages'
                 /\ IsOutcomeOf(generatedImages'[regenerations[r].key],
                                regenerations[r].img, regenerations[r].key,
                                [by |-> "regenerate", n |-> r])]_vars

\* Back in the 'idle' view, with no cropped image stored, the mapping that
\* was emptied on the way there holds the result of a re-run that was in
\* flight at that time.
C18_Witness ==
    /\ appState = "idle"
    /\ croppedImageForDisplay = Null
    /\ \E k \in DOMAIN generatedImages :
           /\ generatedImages[k].status = "done"
           /\ generatedImages[k].url.run.by = "regenerate"

----------------------------------------------------------------------------
(* C19 *)

\* C19 as claimed: in every reachable state every 'done' entry of the result
\* mapping holds a result generated from the cropped image that is stored at
\* that time (so never one generated from an image uploaded earlier, and
\* none when no cropped image is stored).
C19_DoneFromCurrentImage ==
    \A k \in DOMAIN generatedImages :
        generatedImages[k].status = "done" =>
            /\ croppedImageForDisplay # Null
            /\ generatedImages[k].url.src = croppedImageForDisplay

----------------------------------------------------------------------------
(* C20 *)

\* C20 as claimed: a step that changes appState while it is 'generating'
\* changes it to 'results-shown', and it is the step in which the dispatch
\* that set 'generating' (the latest one) completes.
C20_GeneratingLeavesOnlyByCompletion ==
    [][(appState = "generating" /\ appState' # "generating") =>
          /\ appState' = "results-shown"
          /\ dispatches # <<>>
          /\ Completes(Len(dispatches))]_vars

----------------------------------------------------------------------------
(* C21 *)

\* C21 as claimed: in every reachable state, appState 'cropping' implies
\* that an uploaded image is stored, and appState 'image-uploaded',
\* 'generating' or 'results-shown' implies that a cropped image is stored.
C21_ViewHasItsImage ==
    /\ appState = "cropping" => uploadedImage # Null
    /\ appState \in {"image-uploaded", "generating", "results-shown"} =>
           croppedImageForDisplay # Null

----------------------------------------------------------------------------
(* C22 *)

\* C22: isDownloading is true exactly while a composition started by
\* handleDownloadAlbum has not settled; a call that is refused leaves it
\* false, and the settlement of createAlbumPage, successful or failed, sets
\* it back to false; and no step of handleDownloadAlbum or of its
\* continuation changes the result mapping or appState.
C22_IsDownloadingRestored ==
    /\ [](isDownloading <=> album # <<>>)
    /\ [][(handleDownloadAlbum /\ ~AllDone(generatedImages)) =>
             ~isDownloading']_vars
    /\ [][(handleDownloadAlbum /\ AllDone(generatedImages)) =>
             isDownloading']_vars
    /\ [][\A ok \in BOOLEAN : AlbumSettles(ok) => ~isDownloading']_vars
    /\ [][(handleDownloadAlbum \/ \E ok \in BOOLEAN : AlbumSettles(ok)) =>
             UNCHANGED <<generatedImages, appState>>]_vars

\* A composition is in progress: isDownloading is true, and the result
\* mapping still holds exactly the images the composition was handed.
C22_Witness ==
    /\ isDownloading
    /\ album # <<>>
    /\ DOMAIN generatedImages = Keys
    /\ \A k \in Keys : generatedImages[k] = Done(album[1][k])

====
